---- MODULE Spec2Model ----
(***************************************************************************)
(* The sharded in-memory time-series storage of murphybytes/gots           *)
(* (internal/service/storage/storage.go): N worker goroutines, each owning *)
(* an elementMap and fed by a buffered channel of operations; Write and    *)
(* Search enqueue closures; a ticker drives expireOldElements; Close       *)
(* closes the close channel and waits for the workers.                     *)
(*                                                                         *)
(* int64 / uint64 are modelled with WordBits bits instead of 64 (TLC's     *)
(* integers are 32 bits wide); every conversion keeps its wrap-around.     *)
(***************************************************************************)
EXTENDS Integers, Sequences, FiniteSets, Bags, TLC

\* ------------------------------------------------------------------ bounds

\* Width of the modelled int64 / uint64.
WordBits == 4
\* Total number of Write calls in a behaviour.
MaxWrites == 2
\* Number of samples handed to one worker in a sequential run of its shard.
MaxLen == 3
\* Largest Options.WorkerCount the router is checked with.
MaxWorkerCount == 8
\* Number of events the subscriber receives from the bus in a behaviour.
MaxEvents == 3
\* Number of stack frames of a goroutine before the runtime ends the process.
MaxStack == 3

\* ------------------------------------------------------------ configuration

\* Options.WorkerCount, Options.ChannelBufferSize, Options.MaxAge (in ticks of
\* the model's clock) of the engine under test.
WorkerCount == 2
ChannelBufferSize == 2
MaxAge == 1

\* api.NoLowerBound, api.NoUpperBound: 0 and the largest signed word.
NoLowerBound == 0
NoUpperBound == 2 ^ (WordBits - 1) - 1

\* ------------------------------------------------------------- input sets

Callers == {"c1", "c2"}
Keys == {"A", "B", "C"}
\* The keys a caller writes: "B" is written by both, "A" lives on another
\* shard than "B" and "C", which share one.
KeysOf(c) == IF c = "c1" THEN {"A", "B"} ELSE {"B", "C"}
\* The callers that search, and the keys they search.
Searchers == {"c1"}
SearchKeys == {"A", "B"}
\* UnixNano() of the times handed to Write.
Timestamps == {1, 2}
\* The payload a caller writes: each caller's own, so that a stored Element
\* tells who wrote it.
PayloadOf(c) == c
\* The uint64 bounds <<first, last>> handed to Search: everything, a proper
\* half-open range, an upper bound whose int64 conversion wraps, and an
\* inverted pair.
SearchRanges ==
    { <<NoLowerBound, NoUpperBound>>, <<1, 2>>,
      <<NoLowerBound, NoUpperBound + 1>>, <<2, 1>> }
\* Readings of time.Now().UnixNano() at a tick.
Clock == {3, 4}

Shards == 0 .. WorkerCount - 1

\* api.Element{Timestamp, Data}
Element(ts, d) == [Timestamp |-> ts, Data |-> d]

\* --------------------------------------------------------------- the state

VARIABLES
    data,      \* data[w]: the elementMap of worker w (key -> list of Elements)
    work,      \* work[w]: the buffered channel s.work[w], a FIFO of operations
    wpc,       \* wpc[w]: "select" while worker w is in its loop, "done" after return
    closed,    \* the close channel has been closed
    wait,      \* s.wait, the WaitGroup counter
    counter,   \* opts.MessageCounter: the number of Add(1) calls
    cpc,       \* cpc[c]: where caller c is inside Write / Search / Close
    creq,      \* creq[c]: the arguments of the call caller c is inside
    crashed,   \* an unrecovered panic has ended the process
    opts,      \* s.opts: which of the optional Options fields are set
    enq,       \* history: enq[k], the Elements of the write tasks enqueued for k
    app,       \* history: app[k], the Elements of the write tasks run for k
    expired,   \* history: expired[k], the Elements removed from k by expiry
    sub,       \* the bus subscriber: its goroutine, closer, WaitGroup, Close
    last       \* history: the step taken last

vars == <<data, work, wpc, closed, wait, counter, cpc, creq, crashed, opts,
          enq, app, expired, sub, last>>

NoReq == [op |-> "none"]
\* A Search that has not returned.
NoResult == [err |-> "pending", elts |-> <<>>]

\* ------------------------------------------------------- integer conversion

\* int64(u) of a uint64 u: the same bits read as two's complement.
ToInt64(u) == IF u >= 2 ^ (WordBits - 1) THEN u - 2 ^ WordBits ELSE u

\* ------------------------------------------------------------------ router

\* xxhash.ChecksumString32(key), seed 0, as <<high 16 bits, low 16 bits>>.
ChecksumString32(key) ==
    CASE key = "A" -> <<4197, 39501>>     \* 0x10659a4d
      [] key = "B" -> <<36856, 38838>>    \* 0x8ff897b6
      [] key = "C" -> <<13854, 28856>>    \* 0x361e70b8

\* A router that sends a key to the shard with the shorter inbox.
calculateWorkerPartitionByLoad(key) ==
    IF Len(work[0]) <= Len(work[WorkerCount - 1]) THEN 0 ELSE WorkerCount - 1

\* int(cs) % WorkerCount, int being 64 bits wide: cs = hi * 2^16 + lo >= 0.
calculateWorkerPartition(key) ==
    LET cs == ChecksumString32(key)
    IN  ((cs[1] % WorkerCount) * (65536 % WorkerCount) + cs[2]) % WorkerCount

\* ------------------------------------------------------------- sample list

\* The loop of insert from position i (the element under curr) back to the
\* front: InsertAfter(elt, curr) at the first curr with
\* elt.Timestamp >= curr.Timestamp, PushFront when curr runs off the front.
RECURSIVE insertFrom(_, _, _)
insertFrom(l, elt, i) ==
    IF i = 0 THEN <<elt>> \o l
    ELSE IF elt.Timestamp >= l[i].Timestamp
         THEN SubSeq(l, 1, i) \o <<elt>> \o SubSeq(l, i + 1, Len(l))
         ELSE insertFrom(l, elt, i - 1)

\* insert that always pushes to the back (no backward scan).
insertPushBack(l, elt) == Append(l, elt)

\* insert whose comparison is > instead of >=: a tie goes before its equals.
RECURSIVE insertFromStrict(_, _, _)
insertFromStrict(l, elt, i) ==
    IF i = 0 THEN <<elt>> \o l
    ELSE IF elt.Timestamp > l[i].Timestamp
         THEN SubSeq(l, 1, i) \o <<elt>> \o SubSeq(l, i + 1, Len(l))
         ELSE insertFromStrict(l, elt, i - 1)

insertStrict(l, elt) == insertFromStrict(l, elt, Len(l))

\* insert with InsertBefore in place of InsertAfter.
RECURSIVE insertFromBefore(_, _, _)
insertFromBefore(l, elt, i) ==
    IF i = 0 THEN <<elt>> \o l
    ELSE IF elt.Timestamp >= l[i].Timestamp
         THEN SubSeq(l, 1, i - 1) \o <<elt>> \o SubSeq(l, i, Len(l))
         ELSE insertFromBefore(l, elt, i - 1)

insertBefore(l, elt) == insertFromBefore(l, elt, Len(l))

insert(l, elt) == insertFrom(l, elt, Len(l))

\* A search that hands out the list itself instead of a slice of its own.
LiveReference(elts) == [live |-> TRUE, elts |-> elts]

\* result := make([]api.Element, 0, elts.Len()) and result = append(result,
\* tick): what search returns is a new slice holding copies of the Elements.
Materialize(elts) == [live |-> FALSE, elts |-> elts]

\* search(elts, first, last) on int64 bounds.
search(elts, first, lst) ==
    IF Len(elts) = 0 THEN <<>>
    ELSE IF elts[Len(elts)].Timestamp < first THEN <<>>
    ELSE IF elts[1].Timestamp >= lst THEN <<>>
    ELSE SelectSeq(elts, LAMBDA tick : tick.Timestamp >= first /\ tick.Timestamp < lst)

\* Front expiry that looks at the front once instead of looping.
expireFrontOnce(l, firstTimestamp) ==
    IF Len(l) = 0 THEN l
    ELSE IF l[1].Timestamp < firstTimestamp THEN Tail(l)
    ELSE l

\* Front expiry with <= in place of <.
RECURSIVE expireFrontInclusive(_, _)
expireFrontInclusive(l, firstTimestamp) ==
    IF Len(l) = 0 THEN l
    ELSE IF l[1].Timestamp <= firstTimestamp
         THEN expireFrontInclusive(Tail(l), firstTimestamp)
    ELSE l

\* The inner loop of expireOldElements on one list: remove the front while its
\* Timestamp < firstTimestamp.
RECURSIVE expireFront(_, _)
expireFront(l, firstTimestamp) ==
    IF Len(l) = 0 THEN l
    ELSE IF l[1].Timestamp < firstTimestamp THEN expireFront(Tail(l), firstTimestamp)
    ELSE l

\* expireOldElements without the deletion of the emptied keys.
expireOldElementsKeepEmpties(m, firstTimestamp) ==
    [k \in DOMAIN m |-> expireFront(m[k], firstTimestamp)]

\* expireOldElements that stops deleting after the first emptied key.
expireOldElementsReapOne(m, firstTimestamp) ==
    LET trimmed == [k \in DOMAIN m |-> expireFront(m[k], firstTimestamp)]
        empties == {k \in DOMAIN m : Len(trimmed[k]) = 0}
        reaped == IF empties = {} THEN {} ELSE {CHOOSE k \in empties : TRUE}
    IN  [k \in (DOMAIN m) \ reaped |-> trimmed[k]]

\* expireOldElements(data, firstTimestamp, onExpire): the map afterwards.
expireOldElements(m, firstTimestamp) ==
    LET trimmed == [k \in DOMAIN m |-> expireFront(m[k], firstTimestamp)]
        empties == {k \in DOMAIN m : Len(trimmed[k]) = 0}
    IN  [k \in (DOMAIN m) \ empties |-> trimmed[k]]

\* A pass that calls the handler once per key, with the first Element removed.
expiredOfFirstOnly(l, firstTimestamp) ==
    IF Len(l) > Len(expireFront(l, firstTimestamp)) THEN <<l[1]>> ELSE <<>>

\* The Elements a pass hands to onExpire for key k, in order.
expiredOf(l, firstTimestamp) ==
    SubSeq(l, 1, Len(l) - Len(expireFront(l, firstTimestamp)))

\* The write operation that forgets the PushBack on a new list.
writeTaskNoPush(m, key, elt) ==
    IF key \notin DOMAIN m
    THEN [k \in (DOMAIN m) \cup {key} |-> IF k = key THEN <<>> ELSE m[k]]
    ELSE [m EXCEPT ![key] = insert(m[key], elt)]

\* The write operation that starts a fresh map for a key it has not seen.
writeTaskFreshMap(m, key, elt) ==
    IF key \notin DOMAIN m
    THEN [k \in {key} |-> <<elt>>]
    ELSE [m EXCEPT ![key] = insert(m[key], elt)]

\* The body of the operation Write enqueues.
writeTask(m, key, elt) ==
    IF key \notin DOMAIN m
    THEN [k \in (DOMAIN m) \cup {key} |-> IF k = key THEN <<elt>> ELSE m[k]]
    ELSE [m EXCEPT ![key] = insert(m[key], elt)]

\* The search operation that answers an absent key with an empty success.
searchTaskNoNotFound(m, key, first, lst) ==
    IF key \in DOMAIN m
    THEN [err |-> "none", elts |-> search(m[key], ToInt64(first), ToInt64(lst))]
    ELSE [err |-> "none", elts |-> <<>>]

\* The body of the operation Search enqueues: the searchResult it sends.
searchTask(m, key, first, lst) ==
    IF key \in DOMAIN m
    THEN [err |-> "none", elts |-> search(m[key], ToInt64(first), ToInt64(lst))]
    ELSE [err |-> "NotFound", elts |-> <<>>]

\* ---------------------------------------------------------------- channels

\* A buffer that takes one operation more than its size.
CanSendOffByOne(w) == Len(work[w]) <= ChannelBufferSize
\* ch <- op on a buffered channel: possible while the buffer has room.
CanSend(w) == Len(work[w]) < ChannelBufferSize
\* A channel that hands out the newest operation first.
SendFront(q, op) == <<op>> \o q
Send(q, op) == Append(q, op)
\* op := <-ch: the oldest operation.
Recv(q) == Head(q)
AfterRecv(q) == Tail(q)

\* -------------------------------------------------------------------- Init

\* The Options the tests and server.Run construct the storage with: a
\* MessageCounter (discard.NewCounter()) and no OnExpire handler.
DefaultOptions == [MessageCounter |-> TRUE, OnExpire |-> "nil"]

\* Every way to fill the optional fields: MessageCounter set or left nil,
\* OnExpire left nil, a handler that returns, or a handler that panics.
AllOptions == [MessageCounter : BOOLEAN, OnExpire : {"nil", "returns", "panics"}]

\* subscriber.New: closer is open, wait.Add(1) is done and the goroutine is
\* at the select of its loop; Close has not been called, no event has been
\* received and Write has not been called.
subscriberNew ==
    [pc |-> "select", closer |-> FALSE, wait |-> 1, consumerClosed |-> FALSE,
     assigned |-> FALSE, close |-> "idle", req |-> NoReq,
     received |-> <<>>, written |-> <<>>]

\* New(opts): the workers are started with empty maps and empty channels.
New(o) ==
    /\ opts = o
    /\ data = [w \in Shards |-> <<>>]
    /\ work = [w \in Shards |-> <<>>]
    /\ wpc = [w \in Shards |-> "select"]
    /\ closed = FALSE
    /\ wait = WorkerCount
    /\ counter = 0
    /\ cpc = [c \in Callers |-> "idle"]
    /\ creq = [c \in Callers |-> NoReq]
    /\ crashed = FALSE
    /\ enq = [k \in Keys |-> <<>>]
    /\ app = [k \in Keys |-> <<>>]
    /\ expired = [k \in Keys |-> <<>>]
    /\ last = [kind |-> "init"]

Init == New(DefaultOptions) /\ sub = subscriberNew

\* ----------------------------------------------------------------- callers

\* A caller whose channel send finds the buffer with room passes it in the
\* step of the call; one that finds it full stays at the send ("write_send",
\* "search_send") until the worker has received an operation.

\* The send of Write's operation on s.work[partition]: Write returns.
EnqueueWrite(c, req) ==
    LET w == calculateWorkerPartition(req.key)
    IN  /\ CanSend(w)
        /\ work' = [work EXCEPT ![w] = Send(work[w], req)]
        /\ enq' = [enq EXCEPT ![req.key] = Append(@, req.elt)]
        /\ cpc' = [cpc EXCEPT ![c] = "idle"]
        /\ creq' = [creq EXCEPT ![c] = NoReq]

\* The send of Search's operation on s.work[partition]: the caller goes on to
\* receive from responseChan.
EnqueueSearch(c, req) ==
    LET w == calculateWorkerPartition(req.key)
    IN  /\ CanSend(w)
        /\ work' = [work EXCEPT ![w] = Send(work[w], req)]
        /\ cpc' = [cpc EXCEPT ![c] = "search_recv"]
        /\ creq' = [creq EXCEPT ![c] = req]

\* A Write that counts the message only once its operation is in the inbox,
\* and not at all when it has to wait at the send.
WriteCountsOnEnqueue(c, key, ts, d) ==
    /\ ~crashed
    /\ cpc[c] = "idle"
    /\ counter < MaxWrites
    /\ LET req == [op |-> "write", key |-> key, elt |-> Element(ts, d)]
       IN  IF CanSend(calculateWorkerPartition(key))
           THEN /\ EnqueueWrite(c, req)
                /\ counter' = counter + 1
           ELSE /\ cpc' = [cpc EXCEPT ![c] = "write_send"]
                /\ creq' = [creq EXCEPT ![c] = req]
                /\ UNCHANGED <<work, enq, counter>>
    /\ last' = [kind |-> "Write", caller |-> c]
    /\ UNCHANGED <<sub, opts, data, wpc, closed, wait, crashed, app, expired>>

\* Write: count the message, build the Element, send the operation.
\* s.opts.MessageCounter.Add(1) is a method call on an interface value: with
\* the field left nil it panics before anything is built or sent.
Write(c, key, ts, d) ==
    /\ ~crashed
    /\ cpc[c] = "idle"
    /\ counter < MaxWrites
    /\ IF opts.MessageCounter
       THEN /\ counter' = counter + 1
            /\ LET req == [op |-> "write", key |-> key, elt |-> Element(ts, d)]
               IN  IF CanSend(calculateWorkerPartition(key))
                   THEN EnqueueWrite(c, req)
                   ELSE /\ cpc' = [cpc EXCEPT ![c] = "write_send"]
                        /\ creq' = [creq EXCEPT ![c] = req]
                        /\ UNCHANGED <<work, enq>>
            /\ last' = [kind |-> "Write", caller |-> c]
            /\ UNCHANGED crashed
       ELSE /\ crashed' = TRUE
            /\ last' = [kind |-> "WritePanic", caller |-> c, key |-> key]
            /\ UNCHANGED <<counter, work, enq, cpc, creq>>
    /\ UNCHANGED <<sub, opts, data, wpc, closed, wait, app, expired>>

\* A Write that waited at its send passes it.
WriteSend(c) ==
    /\ ~crashed
    /\ cpc[c] = "write_send"
    /\ EnqueueWrite(c, creq[c])
    /\ last' = [kind |-> "WriteSend", caller |-> c]
    /\ UNCHANGED <<sub, opts, data, wpc, closed, wait, counter, crashed, app, expired>>

\* Search without the first > last check.
SearchNoCheck(c, key, first, lst) ==
    /\ ~crashed
    /\ cpc[c] = "idle"
    /\ LET req == [op |-> "search", key |-> key, first |-> first,
                   last |-> lst, caller |-> c]
       IN  IF CanSend(calculateWorkerPartition(key))
           THEN EnqueueSearch(c, req)
           ELSE /\ cpc' = [cpc EXCEPT ![c] = "search_send"]
                /\ creq' = [creq EXCEPT ![c] = req]
                /\ UNCHANGED work
    /\ last' = [kind |-> "Search", caller |-> c, key |-> key,
                first |-> first, last |-> lst, result |-> NoResult]
    /\ UNCHANGED <<sub, opts, data, wpc, closed, wait, counter, crashed, enq, app, expired>>

\* Search: the bounds check, then the send of the operation.
Search(c, key, first, lst) ==
    /\ ~crashed
    /\ cpc[c] = "idle"
    /\ IF first > lst
       THEN /\ UNCHANGED <<cpc, creq, work>>
            /\ last' = [kind |-> "Search", caller |-> c, key |-> key,
                        first |-> first, last |-> lst,
                        result |-> [err |-> "InvalidSearch", elts |-> <<>>]]
       ELSE /\ LET req == [op |-> "search", key |-> key, first |-> first,
                           last |-> lst, caller |-> c]
               IN  IF CanSend(calculateWorkerPartition(key))
                   THEN EnqueueSearch(c, req)
                   ELSE /\ cpc' = [cpc EXCEPT ![c] = "search_send"]
                        /\ creq' = [creq EXCEPT ![c] = req]
                        /\ UNCHANGED work
            /\ last' = [kind |-> "Search", caller |-> c, key |-> key,
                        first |-> first, last |-> lst, result |-> NoResult]
    /\ UNCHANGED <<sub, opts, data, wpc, closed, wait, counter, crashed, enq, app, expired>>

\* A Search that waited at its send passes it.
SearchSend(c) ==
    /\ ~crashed
    /\ cpc[c] = "search_send"
    /\ EnqueueSearch(c, creq[c])
    /\ last' = [kind |-> "SearchSend", caller |-> c]
    /\ UNCHANGED <<sub, opts, data, wpc, closed, wait, counter, crashed, enq, app, expired>>

\* Close: close(s.close) (a panic when it is closed already), then s.wait.Wait().
Close(c) ==
    /\ ~crashed
    /\ cpc[c] = "idle"
    /\ IF closed
       THEN /\ crashed' = TRUE
            /\ UNCHANGED <<closed, cpc>>
       ELSE /\ closed' = TRUE
            /\ cpc' = [cpc EXCEPT ![c] = "close_wait"]
            /\ UNCHANGED crashed
    /\ last' = [kind |-> "Close", caller |-> c]
    /\ UNCHANGED <<sub, opts, data, work, wpc, wait, counter, creq,
                   enq, app, expired>>

\* A Close that returns without s.wait.Wait().
CloseReturnNoWait(c) ==
    /\ ~crashed
    /\ cpc[c] = "close_wait"
    /\ cpc' = [cpc EXCEPT ![c] = "idle"]
    /\ last' = [kind |-> "CloseReturn", caller |-> c]
    /\ UNCHANGED <<sub, opts, data, work, wpc, closed, wait, counter, creq, crashed,
                   enq, app, expired>>

\* s.wait.Wait() returns once every worker has called Done.
CloseReturn(c) ==
    /\ ~crashed
    /\ cpc[c] = "close_wait"
    /\ wait = 0
    /\ cpc' = [cpc EXCEPT ![c] = "idle"]
    /\ last' = [kind |-> "CloseReturn", caller |-> c]
    /\ UNCHANGED <<sub, opts, data, work, wpc, closed, wait, counter, creq, crashed,
                   enq, app, expired>>

\* ----------------------------------------------------------------- workers

\* A worker that takes the close case only when its inbox is empty.
WorkerExitWhenIdle(w) ==
    /\ ~crashed
    /\ wpc[w] = "select"
    /\ closed
    /\ Len(work[w]) = 0
    /\ wpc' = [wpc EXCEPT ![w] = "done"]
    /\ wait' = wait - 1
    /\ last' = [kind |-> "WorkerExit", shard |-> w]
    /\ UNCHANGED <<sub, opts, data, work, closed, counter, cpc, creq, crashed,
                   enq, app, expired>>

\* case <-close: return (and the deferred s.wait.Done()).
WorkerExit(w) ==
    /\ ~crashed
    /\ wpc[w] = "select"
    /\ closed
    /\ wpc' = [wpc EXCEPT ![w] = "done"]
    /\ wait' = wait - 1
    /\ last' = [kind |-> "WorkerExit", shard |-> w]
    /\ UNCHANGED <<sub, opts, data, work, closed, counter, cpc, creq, crashed,
                   enq, app, expired>>

\* A worker that goes on receiving writes after it has returned.
RunWriteAfterExit(w) ==
    /\ ~crashed
    /\ Len(work[w]) > 0
    /\ LET job == Recv(work[w])
       IN  /\ job.op = "write"
           /\ data' = [data EXCEPT ![w] = writeTask(data[w], job.key, job.elt)]
           /\ app' = [app EXCEPT ![job.key] = Append(@, job.elt)]
           /\ last' = [kind |-> "RunWrite", shard |-> w, key |-> job.key,
                       elt |-> job.elt]
    /\ work' = [work EXCEPT ![w] = AfterRecv(work[w])]
    /\ UNCHANGED <<sub, opts, wpc, closed, wait, counter, cpc, creq, crashed,
                   enq, expired>>

\* case job := <-work: job(data), the job being a write.
RunWrite(w) ==
    /\ ~crashed
    /\ wpc[w] = "select"
    /\ Len(work[w]) > 0
    /\ LET job == Recv(work[w])
       IN  /\ job.op = "write"
           /\ data' = [data EXCEPT ![w] = writeTask(data[w], job.key, job.elt)]
           /\ app' = [app EXCEPT ![job.key] = Append(@, job.elt)]
           /\ last' = [kind |-> "RunWrite", shard |-> w, key |-> job.key,
                       elt |-> job.elt]
    /\ work' = [work EXCEPT ![w] = AfterRecv(work[w])]
    /\ UNCHANGED <<sub, opts, wpc, closed, wait, counter, cpc, creq, crashed,
                   enq, expired>>

\* A search operation that is received and never answered.
RunSearchNoReply(w) ==
    /\ ~crashed
    /\ wpc[w] = "select"
    /\ Len(work[w]) > 0
    /\ LET job == Recv(work[w])
       IN  /\ job.op = "search"
           /\ last' = [kind |-> "RunSearch", shard |-> w, caller |-> job.caller,
                       key |-> job.key, first |-> job.first, last |-> job.last,
                       result |-> NoResult]
    /\ work' = [work EXCEPT ![w] = AfterRecv(work[w])]
    /\ UNCHANGED <<sub, opts, data, wpc, closed, wait, counter, cpc, creq, crashed,
                   enq, app, expired>>

\* A search operation that answers and stays in the inbox to be run again.
RunSearchKeepsTask(w) ==
    /\ ~crashed
    /\ wpc[w] = "select"
    /\ Len(work[w]) > 0
    /\ LET job == Recv(work[w])
       IN  /\ job.op = "search"
           /\ cpc[job.caller] = "search_recv"
           /\ cpc' = [cpc EXCEPT ![job.caller] = "idle"]
           /\ creq' = [creq EXCEPT ![job.caller] = NoReq]
           /\ last' = [kind |-> "RunSearch", shard |-> w, caller |-> job.caller,
                       key |-> job.key, first |-> job.first, last |-> job.last,
                       result |-> searchTask(data[w], job.key, job.first, job.last)]
    /\ UNCHANGED <<sub, opts, data, work, wpc, closed, wait, counter, crashed,
                   enq, app, expired>>

\* case job := <-work: job(data), the job being a search; the send on the
\* unbuffered responseChan meets the caller's receive, and Search returns.
RunSearch(w) ==
    /\ ~crashed
    /\ wpc[w] = "select"
    /\ Len(work[w]) > 0
    /\ LET job == Recv(work[w])
       IN  /\ job.op = "search"
           /\ cpc[job.caller] = "search_recv"
           /\ cpc' = [cpc EXCEPT ![job.caller] = "idle"]
           /\ creq' = [creq EXCEPT ![job.caller] = NoReq]
           /\ last' = [kind |-> "RunSearch", shard |-> w, caller |-> job.caller,
                       key |-> job.key, first |-> job.first, last |-> job.last,
                       result |-> searchTask(data[w], job.key, job.first, job.last)]
    /\ work' = [work EXCEPT ![w] = AfterRecv(work[w])]
    /\ UNCHANGED <<sub, opts, data, wpc, closed, wait, counter, crashed,
                   enq, app, expired>>

\* A tick whose pass runs over the maps of all the workers.
TickAllShards(w, now) ==
    /\ ~crashed
    /\ wpc[w] = "select"
    /\ LET cutOff == now - MaxAge
       IN  /\ data' = [v \in Shards |-> expireOldElements(data[v], cutOff)]
           /\ expired' = [k \in Keys |->
                            IF \E v \in Shards : k \in DOMAIN data[v]
                            THEN expired[k] \o expiredOf(
                                   data[calculateWorkerPartition(k)][k], cutOff)
                            ELSE expired[k]]
           /\ last' = [kind |-> "Tick", shard |-> w, cutOff |-> cutOff,
                       before |-> DOMAIN data[w]]
    /\ UNCHANGED <<sub, opts, work, wpc, closed, wait, counter, cpc, creq, crashed,
                   enq, app>>

\* case <-ticker: cutOff := time.Now().Add(-1 * opts.MaxAge).UnixNano();
\* expireOldElements(data, cutOff, opts.OnExpire).  The handler is called on
\* the worker's goroutine right after l.Remove(curr), with no recover: a
\* handler that panics ends the pass at the first Element it is handed (of
\* whichever key with a stale front the map iteration reaches first), that
\* Element already removed, and the panic ends the process.
Tick(w, now) ==
    /\ ~crashed
    /\ wpc[w] = "select"
    /\ LET cutOff == now - MaxAge
           stale == {k \in DOMAIN data[w] : Len(expiredOf(data[w][k], cutOff)) > 0}
       IN  IF opts.OnExpire = "panics" /\ stale # {}
           THEN \E k \in stale :
                  /\ data' = [data EXCEPT ![w][k] = Tail(@)]
                  /\ expired' = [expired EXCEPT ![k] = Append(@, Head(data[w][k]))]
                  /\ crashed' = TRUE
                  /\ last' = [kind |-> "TickPanic", shard |-> w, cutOff |-> cutOff,
                              key |-> k]
           ELSE /\ data' = [data EXCEPT ![w] = expireOldElements(data[w], cutOff)]
                /\ expired' = [k \in Keys |->
                                 IF k \in DOMAIN data[w]
                                 THEN expired[k] \o expiredOf(data[w][k], cutOff)
                                 ELSE expired[k]]
                /\ last' = [kind |-> "Tick", shard |-> w, cutOff |-> cutOff,
                            before |-> DOMAIN data[w]]
                /\ UNCHANGED crashed
    /\ UNCHANGED <<sub, opts, work, wpc, closed, wait, counter, cpc, creq, enq, app>>

\* ---------------------------------------------------------------- the spec

Next ==
    \/ \E c \in Callers : \E k \in KeysOf(c), ts \in Timestamps :
          Write(c, k, ts, PayloadOf(c))
    \/ \E c \in Callers : WriteSend(c)
    \/ \E c \in Searchers, k \in SearchKeys, r \in SearchRanges :
          Search(c, k, r[1], r[2])
    \/ \E c \in Callers : SearchSend(c)
    \/ \E c \in Callers : Close(c)
    \/ \E c \in Callers : CloseReturn(c)
    \/ \E w \in Shards : WorkerExit(w)
    \/ \E w \in Shards : RunWrite(w)
    \/ \E w \in Shards : RunSearch(w)
    \/ \E w \in Shards, now \in Clock : Tick(w, now)

Spec == Init /\ [][Next]_vars

\* The program under the scheduling Go gives it, on inputs that keep two
\* callers writing to and searching both shards: a goroutine that can run
\* is run, a select with several ready cases takes each of them sooner or
\* later (the choice is uniformly random), and the senders blocked on a
\* channel are served in the order they arrived.  Calls and ticks come
\* whenever they come.
LiveKeysOf(c) == IF c = "c1" THEN {"A", "B"} ELSE {"B"}

LiveNext ==
    \/ \E c \in Callers : \E k \in LiveKeysOf(c) :
          Write(c, k, 1, PayloadOf(c))
    \/ \E c \in Callers : WriteSend(c)
    \/ \E c \in Callers : \E k \in LiveKeysOf(c) :
          Search(c, k, NoLowerBound, NoUpperBound)
    \/ \E c \in Callers : SearchSend(c)
    \/ \E c \in Callers : Close(c)
    \/ \E c \in Callers : CloseReturn(c)
    \/ \E w \in Shards : WorkerExit(w)
    \/ \E w \in Shards : RunWrite(w)
    \/ \E w \in Shards : RunSearch(w)
    \/ \E w \in Shards : Tick(w, 3)

Fairness ==
    /\ \A w \in Shards :
          /\ WF_vars(WorkerExit(w))
          /\ WF_vars(RunWrite(w))
          /\ WF_vars(RunSearch(w))
    /\ \A c \in Callers :
          /\ SF_vars(WriteSend(c))
          /\ SF_vars(SearchSend(c))
          /\ WF_vars(CloseReturn(c))

LiveSpec == Init /\ [][LiveNext]_vars /\ Fairness

\* The same program constructed with any filling of the optional fields.
OptInit == (\E o \in AllOptions : New(o)) /\ sub = subscriberNew

OptSpec == OptInit /\ [][Next]_vars

\* ------------------------------------------- one shard, run sequentially

\* What one worker does to its map, operation by operation and pass by pass,
\* and what the caller of a Search does with the slice it got: the operations
\* are handed to the worker directly, with more timestamps, longer lists and
\* more cutoffs than the callers of Spec produce.  The samples are numbered
\* in the order they arrive (Data is the arrival number).

SeqKeys == {"B", "C"}
SeqShard == calculateWorkerPartition("B")
\* UnixNano() of a time before 1970, of ordinary times and of the largest
\* int64.
SeqTimestamps == {-1, 1, 2, NoUpperBound}
\* The samples handed to the worker: key "B" at any of the timestamps, key
\* "C" of the same shard at one.
SeqWrites == ({"B"} \X SeqTimestamps) \cup {<<"C", 1>>}
\* A cutoff that is the timestamp of a sample, and one past the ordinary
\* timestamps.
SeqCutOffs == {2, 3}
\* The bounds of the Searches: everything, and a proper half-open range.
SeqRanges == {<<NoLowerBound, NoUpperBound>>, <<1, 2>>}
\* The OnExpire handlers that return.
SeqOptions == {o \in AllOptions : o.MessageCounter /\ o.OnExpire # "panics"}

\* if onExpire != nil { onExpire(key, elt) }: the Elements a pass hands to
\* the handler, per key, in the order of the calls.
onExpireCalls(m, firstTimestamp, onExpire) ==
    [k \in DOMAIN m |->
        IF onExpire = "nil" THEN <<>> ELSE expiredOf(m[k], firstTimestamp)]

\* The number of samples handed to the worker so far.
Arrivals == Len(app["B"]) + Len(app["C"])

\* The slice the caller got from its last Search, and the key it asked for.
NoHeld == [key |-> "B", slice |-> Materialize(<<>>)]
Held == IF "held" \in DOMAIN last THEN last.held ELSE NoHeld

\* What a caller does to a slice it holds: drop its first entry, or swap its
\* first two.
Edits == {"drop", "swap"}
Edit(e, q) ==
    IF e = "drop" THEN (IF Len(q) > 0 THEN Tail(q) ELSE q)
    ELSE IF Len(q) > 1 THEN <<q[2], q[1]>> \o SubSeq(q, 3, Len(q)) ELSE q

\* job(data) for the operation of a Write.
ApplyWrite(k, ts) ==
    /\ Arrivals < MaxLen
    /\ LET elt == Element(ts, Arrivals + 1)
       IN  /\ data' = [data EXCEPT ![SeqShard] = writeTask(@, k, elt)]
           /\ app' = [app EXCEPT ![k] = Append(@, elt)]
           /\ last' = [kind |-> "ApplyWrite", key |-> k, elt |-> elt,
                       before |-> data[SeqShard], held |-> Held]
    /\ UNCHANGED <<sub, opts, work, wpc, closed, wait, counter, cpc, creq, crashed,
                   enq, expired>>

\* expireOldElements(data, cutOff, opts.OnExpire) of a tick.
ApplyExpire(cutOff) ==
    /\ data' = [data EXCEPT ![SeqShard] = expireOldElements(@, cutOff)]
    /\ expired' = [k \in Keys |->
                     IF k \in DOMAIN data[SeqShard]
                     THEN expired[k] \o expiredOf(data[SeqShard][k], cutOff)
                     ELSE expired[k]]
    /\ last' = [kind |-> "ApplyExpire", cutOff |-> cutOff,
                before |-> data[SeqShard],
                calls |-> onExpireCalls(data[SeqShard], cutOff, opts.OnExpire),
                held |-> Held]
    /\ UNCHANGED <<sub, opts, work, wpc, closed, wait, counter, cpc, creq, crashed,
                   enq, app>>

\* A search operation that leaves an empty list behind for a key it did not
\* find.
ApplySearchCreatesKey(k, first, lst) ==
    /\ LET result == searchTask(data[SeqShard], k, first, lst)
       IN  last' = [kind |-> "ApplySearch", key |-> k, first |-> first,
                    last |-> lst, before |-> data[SeqShard], result |-> result,
                    held |-> [key |-> k, slice |-> Materialize(result.elts)]]
    /\ data' = [data EXCEPT ![SeqShard] =
                   IF k \in DOMAIN @ THEN @
                   ELSE [j \in (DOMAIN @) \cup {k} |->
                            IF j = k THEN <<>> ELSE @[j]]]
    /\ UNCHANGED <<sub, opts, work, wpc, closed, wait, counter, cpc, creq,
                   crashed, enq, app, expired>>

\* job(data) for the operation of a Search, and the caller's receive of the
\* result: the caller now holds result.elts.
ApplySearch(k, first, lst) ==
    /\ LET result == searchTask(data[SeqShard], k, first, lst)
       IN  last' = [kind |-> "ApplySearch", key |-> k, first |-> first,
                    last |-> lst, before |-> data[SeqShard], result |-> result,
                    held |-> [key |-> k, slice |-> Materialize(result.elts)]]
    /\ UNCHANGED <<sub, opts, data, work, wpc, closed, wait, counter, cpc, creq,
                   crashed, enq, app, expired>>

\* The caller changes the slice it holds.  A slice of the caller's own is
\* all that changes; were it the stored list, the list would change.
CallerEdits(e) ==
    /\ Len(Held.slice.elts) > 0
    /\ IF Held.slice.live /\ Held.key \in DOMAIN data[SeqShard]
       THEN /\ data' = [data EXCEPT ![SeqShard][Held.key] = Edit(e, @)]
            /\ last' = [kind |-> "CallerEdits", edit |-> e, held |-> Held]
       ELSE /\ data' = data
            /\ last' = [kind |-> "CallerEdits", edit |-> e,
                        held |-> [Held EXCEPT !.slice.elts = Edit(e, @)]]
    /\ UNCHANGED <<sub, opts, work, wpc, closed, wait, counter, cpc, creq, crashed,
                   enq, app, expired>>

SeqInit == (\E o \in SeqOptions : New(o)) /\ sub = subscriberNew

SeqNext ==
    \/ \E wr \in SeqWrites : ApplyWrite(wr[1], wr[2])
    \/ \E cutOff \in SeqCutOffs : ApplyExpire(cutOff)
    \/ \E k \in SeqKeys, r \in SeqRanges : ApplySearch(k, r[1], r[2])
    \/ \E e \in Edits : CallerEdits(e)

SeqSpec == SeqInit /\ [][SeqNext]_vars

\* ------------------------------------------------- the range scan alone

\* The operations of Writes and Searches on one shard, the Searches with
\* every order of bounds Search accepts: below, between, at and above the
\* stored timestamps, equal, and at and above 2^63.

\* UnixNano() of a time before 1970 and of two ordinary times.
ScanTimestamps == {-2, 1, 2}
ScanWrites == {"B"} \X ScanTimestamps
ScanBounds == {0, 1, 2, 3, 2 ^ (WordBits - 1), 2 ^ WordBits - 1}
\* if first > last { return nil, &ErrorInvalidSearch{} }: the pairs that
\* reach the worker.
ScanRanges == {r \in ScanBounds \X ScanBounds : r[1] <= r[2]}

ScanInit == New(DefaultOptions) /\ sub = subscriberNew

ScanNext ==
    \/ \E wr \in ScanWrites : ApplyWrite(wr[1], wr[2])
    \/ \E k \in SeqKeys, r \in ScanRanges : ApplySearch(k, r[1], r[2])

ScanSpec == ScanInit /\ [][ScanNext]_vars

\* ------------------------------------------------------- the router alone

\* calculateWorkerPartition on the hash values of the keys and on the
\* values around 2^31 and 2^32, for every worker count from 1 on, on a
\* build whose int has 32 bits and on one whose int has 64.

\* The sizes of int a Go build can have.
IntSizes == {32, 64}
WorkerCounts == 1 .. MaxWorkerCount
\* uint32 values as <<high 16 bits, low 16 bits>>: the hashes of the keys,
\* 0, 2^31 - 1, 2^31, 2^31 + 1 and 2^32 - 1.
Checksums ==
    {ChecksumString32(k) : k \in Keys}
        \cup {<<0, 0>>, <<32767, 65535>>, <<32768, 0>>, <<32768, 1>>,
              <<65535, 65535>>}

\* a % n of Go for n > 0: the remainder has the sign of a.
Rem(a, n) == IF a >= 0 \/ a % n = 0 THEN a % n ELSE (a % n) - n

\* int(cs) % workerCount for cs = hi * 2^16 + lo: with a 32-bit int a cs of
\* 2^31 or more converts to cs - 2^32, with a 64-bit int cs keeps its value.
calculateWorkerPartitionOf(cs, workerCount, intSize) ==
    IF intSize = 32 /\ cs[1] >= 32768
    THEN Rem((cs[1] - 65536) * 65536 + cs[2], workerCount)
    ELSE ((cs[1] % workerCount) * (65536 % workerCount) + cs[2]) % workerCount

\* partition := s.calculateWorkerPartition(key); s.work[partition] <- ...
Partition(cs, workerCount, intSize) ==
    /\ LET partition == calculateWorkerPartitionOf(cs, workerCount, intSize)
       IN  last' = [kind |-> "Partition", cs |-> cs,
                    WorkerCount |-> workerCount, intSize |-> intSize,
                    partition |-> partition,
                    panics |-> partition \notin 0 .. workerCount - 1]
    /\ UNCHANGED <<sub, opts, data, work, wpc, closed, wait, counter, cpc, creq,
                   crashed, enq, app, expired>>

PartInit == New(DefaultOptions) /\ sub = subscriberNew

PartNext ==
    \E cs \in Checksums, n \in WorkerCounts, intSize \in IntSizes :
        Partition(cs, n, intSize)

PartSpec == PartInit /\ [][PartNext]_vars

\* --------------------------------------------------------- the subscriber

\* The goroutine subscriber.New starts, and Close.  The goroutine loops over
\* a select of closer and c.Events(); a message is written to storage, whose
\* workers run the operations.

\* The kinds of kafka.Event the switch names, and one it does not.
EventKinds ==
    {"AssignedPartitions", "RevokedPartitions", "Message", "PartitionEOF",
     "Error", "OffsetsCommitted"}
\* *kafka.Message: Key, Timestamp (as UnixNano()) and Value.
Messages ==
    {[kind |-> "Message", Key |-> "B", Timestamp |-> 1, Value |-> "v1"],
     [kind |-> "Message", Key |-> "C", Timestamp |-> 2, Value |-> "v2"]}
Events == Messages \cup {[kind |-> k] : k \in EventKinds \ {"Message"}}

\* wtr.Write(string(msg.Key), msg.Timestamp, msg.Value) as the call is made.
WriteCall(msg) == [key |-> msg.Key, ts |-> msg.Timestamp, data |-> msg.Value]

\* The call of storage Write by the goroutine: the counter, then the send of
\* the operation, which waits in "write_send" while the inbox is full.
subWrite(msg) ==
    IF opts.MessageCounter
    THEN /\ counter' = counter + 1
         /\ LET req == [op |-> "write", key |-> msg.Key,
                        elt |-> Element(msg.Timestamp, msg.Value)]
                w == calculateWorkerPartition(msg.Key)
            IN  IF CanSend(w)
                THEN /\ work' = [work EXCEPT ![w] = Send(work[w], req)]
                     /\ enq' = [enq EXCEPT ![msg.Key] = Append(@, req.elt)]
                     /\ sub' = [sub EXCEPT
                                  !.received = Append(@, msg),
                                  !.written = Append(@, WriteCall(msg))]
                ELSE /\ sub' = [sub EXCEPT
                                  !.pc = "write_send", !.req = req,
                                  !.received = Append(@, msg),
                                  !.written = Append(@, WriteCall(msg))]
                     /\ UNCHANGED <<work, enq>>
         /\ UNCHANGED crashed
    ELSE /\ crashed' = TRUE
         /\ sub' = [sub EXCEPT !.received = Append(@, msg),
                               !.written = Append(@, WriteCall(msg))]
         /\ UNCHANGED <<counter, work, enq>>

\* A goroutine that stops writing once closer is closed.
SubEventSkipsWhenClosing(evt) ==
    /\ ~crashed
    /\ sub.pc = "select"
    /\ Len(sub.received) < MaxEvents
    /\ IF evt.kind = "Message" /\ ~sub.closer
       THEN subWrite(evt)
       ELSE /\ sub' = [sub EXCEPT
                         !.received = Append(@, evt),
                         !.assigned =
                             IF evt.kind = "AssignedPartitions" THEN TRUE
                             ELSE IF evt.kind = "RevokedPartitions" THEN FALSE
                             ELSE @]
            /\ UNCHANGED <<counter, work, enq, crashed>>
    /\ last' = [kind |-> "SubEvent", evt |-> evt]
    /\ UNCHANGED <<opts, data, wpc, closed, wait, cpc, creq, app, expired>>
\* case evt := <-c.Events(): the switch on the kind of the event.
SubEvent(evt) ==
    /\ ~crashed
    /\ sub.pc = "select"
    /\ Len(sub.received) < MaxEvents
    /\ IF evt.kind = "Message"
       THEN subWrite(evt)
       ELSE /\ sub' = [sub EXCEPT
                         !.received = Append(@, evt),
                         !.assigned =
                             IF evt.kind = "AssignedPartitions" THEN TRUE
                             ELSE IF evt.kind = "RevokedPartitions" THEN FALSE
                             ELSE @]
            /\ UNCHANGED <<counter, work, enq, crashed>>
    /\ last' = [kind |-> "SubEvent", evt |-> evt]
    /\ UNCHANGED <<opts, data, wpc, closed, wait, cpc, creq, app, expired>>

\* The send of the write operation once the inbox has room: Write returns
\* and the goroutine is back at its select.
SubWriteSend ==
    /\ ~crashed
    /\ sub.pc = "write_send"
    /\ LET w == calculateWorkerPartition(sub.req.key)
       IN  /\ CanSend(w)
           /\ work' = [work EXCEPT ![w] = Send(work[w], sub.req)]
           /\ enq' = [enq EXCEPT ![sub.req.key] = Append(@, sub.req.elt)]
    /\ sub' = [sub EXCEPT !.pc = "select", !.req = NoReq]
    /\ last' = [kind |-> "SubWriteSend"]
    /\ UNCHANGED <<opts, data, wpc, closed, wait, counter, cpc, creq, crashed,
                   app, expired>>

\* case <-closer: break.  The break ends the select statement, and the for
\* loop goes round again.
SubCloser ==
    /\ ~crashed
    /\ sub.pc = "select"
    /\ sub.closer
    /\ last' = [kind |-> "SubCloser"]
    /\ UNCHANGED <<sub, opts, data, work, wpc, closed, wait, counter, cpc,
                   creq, crashed, enq, app, expired>>

\* The statements after the for loop: c.Close(), then the deferred
\* svr.wait.Done().
SubExit ==
    /\ ~crashed
    /\ sub.pc = "after_loop"
    /\ sub' = [sub EXCEPT !.pc = "done", !.consumerClosed = TRUE,
                          !.wait = @ - 1]
    /\ last' = [kind |-> "SubExit"]
    /\ UNCHANGED <<opts, data, work, wpc, closed, wait, counter, cpc, creq,
                   crashed, enq, app, expired>>

\* svr.Close: close(s.closer); the caller then waits in s.wait.Wait().
SubClose ==
    /\ ~crashed
    /\ sub.close = "idle"
    /\ sub' = [sub EXCEPT !.closer = TRUE, !.close = "wait"]
    /\ last' = [kind |-> "SubClose"]
    /\ UNCHANGED <<opts, data, work, wpc, closed, wait, counter, cpc, creq,
                   crashed, enq, app, expired>>

\* s.wait.Wait() returns, and Close with it.
SubCloseReturn ==
    /\ ~crashed
    /\ sub.close = "wait"
    /\ sub.wait = 0
    /\ sub' = [sub EXCEPT !.close = "returned"]
    /\ last' = [kind |-> "SubCloseReturn"]
    /\ UNCHANGED <<opts, data, work, wpc, closed, wait, counter, cpc, creq,
                   crashed, enq, app, expired>>

SubInit == New(DefaultOptions) /\ sub = subscriberNew

\* The steps that can be taken.  SubExit and SubCloseReturn are not among
\* them: no step leaves the for loop, so sub.pc is never "after_loop" and
\* sub.wait is never 0 (SubAllSpec has the same states as SubSpec).
SubNext ==
    \/ \E evt \in Events : SubEvent(evt)
    \/ SubWriteSend
    \/ SubCloser
    \/ SubClose
    \/ \E w \in Shards : RunWrite(w)

SubSpec == SubInit /\ [][SubNext]_vars

SubAllSpec == SubInit /\ [][SubNext \/ SubExit \/ SubCloseReturn]_vars

\* ------------------------------------------------------------ the RPC layer

\* The Search RPC as the server wires it: the grpc_auth interceptor with
\* injectAuthFunctions, then the service service.New builds (the logging
\* middleware around svc), then the Searcher.  Storage is filled by the
\* operations of Writes, handed to the worker directly.

\* svr.authHandler: nil, or a handler; the handler returns nil for the token
\* "good" and an error for every other token.
AuthHandlers == {"nil", "handler"}
\* The bearer token of a request: none in the metadata, one the handler
\* accepts, one it rejects.
Tokens == {"none", "good", "bad"}
\* for _, elt := range elts: one variable for the whole loop (Go before
\* 1.22) or one per iteration (Go 1.22 and later).
LoopVars == {"per-loop", "per-iteration"}
RpcWrites == {<<"B", 1>>, <<"B", 2>>, <<"C", 1>>}
\* Oldest and Newest of a request: everything, a half-open range, and a
\* range with Oldest > Newest.
RpcRanges == {<<NoLowerBound, NoUpperBound>>, <<1, 2>>, <<2, 1>>}
\* The options of the server: the storage options it passes on, and
\* authHandler.
SvrOptions ==
    {DefaultOptions @@ [authHandler |-> h] : h \in AuthHandlers}

\* h(token)
AuthHandler(token) == IF token = "good" THEN "nil" ELSE "error"

\* grpc_auth.AuthFromMD(ctx, "bearer"): an error when the metadata holds no
\* bearer token.
AuthFromMD(token) == IF token = "none" THEN "error" ELSE "nil"

\* The AuthFunc injectAuthFunctions(h) returns, applied to a request with
\* this token: the value it stores in the context, and its error.
injectAuthFunctions(h, token) ==
    IF h = "nil" THEN [authenticated |-> TRUE, err |-> "nil"]
    ELSE IF AuthFromMD(token) # "nil"
         THEN [authenticated |-> FALSE, err |-> "nil"]
    ELSE IF AuthHandler(token) # "nil"
         THEN [authenticated |-> FALSE, err |-> "nil"]
    ELSE [authenticated |-> TRUE, err |-> "nil"]

\* The searchResult of storage Search(key, first, last) once the worker has
\* run its operation.
StorageSearch(key, first, lst) ==
    IF first > lst THEN [err |-> "InvalidSearch", elts |-> <<>>]
    ELSE searchTask(data[calculateWorkerPartition(key)], key, first, lst)

\* What the Searcher of a service may return: what storage returns, or (the
\* Searcher being an interface) some other error.
SearcherResults(key, first, lst) ==
    {StorageSearch(key, first, lst), [err |-> "other", elts |-> <<>>]}

\* case service.KeyNotFound / case storage.KeyNotFound of the type switch.
IsKeyNotFound(err) == err = "NotFound"
\* case service.InvalidSearch / case storage.InvalidSearch.
IsInvalidSearch(err) == err = "InvalidSearch"

\* resp.Results.Elements after the loop that appends &elt: with one loop
\* variable every entry points at it, and it holds the last sample.
Elements(elts, loopvar) ==
    IF loopvar = "per-loop" THEN [i \in DOMAIN elts |-> elts[Len(elts)]]
    ELSE elts

NilResponse == [Status |-> "nil"]
SearchResponse(status, key, elements) ==
    [Status |-> status, Results |-> [Key |-> key, Elements |-> elements]]

\* A service that answers NOT_FOUND to invalid bounds as well.
svcSearchSwapped(key, result, loopvar) ==
    IF IsKeyNotFound(result.err) \/ IsInvalidSearch(result.err)
    THEN [resp |-> SearchResponse("NOT_FOUND", key, <<>>), err |-> "nil",
          reached |-> TRUE]
    ELSE IF result.err # "none"
    THEN [resp |-> NilResponse, err |-> result.err, reached |-> TRUE]
    ELSE [resp |-> SearchResponse("OK", key, Elements(result.elts, loopvar)),
          err |-> "nil", reached |-> TRUE]
\* svc.Search, result being what s.searcher.Search returned.
svcSearch(key, result, loopvar) ==
    IF IsKeyNotFound(result.err)
    THEN [resp |-> SearchResponse("NOT_FOUND", key, <<>>), err |-> "nil",
          reached |-> TRUE]
    ELSE IF IsInvalidSearch(result.err)
    THEN [resp |-> SearchResponse("INVALID_ARGUMENTS", key, <<>>),
          err |-> "nil", reached |-> TRUE]
    ELSE IF result.err # "none"
    THEN [resp |-> NilResponse, err |-> result.err, reached |-> TRUE]
    ELSE [resp |-> SearchResponse("OK", key, Elements(result.elts, loopvar)),
          err |-> "nil", reached |-> TRUE]

\* handler.Search: the response is the caller's, filled in place, and keeps
\* its Results when an error is returned.
handlerSearch(key, result, loopvar) ==
    IF IsKeyNotFound(result.err)
    THEN [resp |-> SearchResponse("NOT_FOUND", key, <<>>), err |-> "nil",
          reached |-> TRUE]
    ELSE IF IsInvalidSearch(result.err)
    THEN [resp |-> SearchResponse("INVALID_ARGUMENTS", key, <<>>),
          err |-> "nil", reached |-> TRUE]
    ELSE IF result.err # "none"
    THEN [resp |-> SearchResponse("OK", key, <<>>), err |-> result.err,
          reached |-> TRUE]
    ELSE [resp |-> SearchResponse("OK", key, Elements(result.elts, loopvar)),
          err |-> "nil", reached |-> TRUE]

\* loggingMiddleware.Search: logs, and returns what mw.next.Search returned.
loggingMiddlewareSearch(next) == next

\* authMiddleware.Search: next is called only when the context says
\* authenticated.
authMiddlewareSearch(authenticated, next) ==
    IF ~authenticated
    THEN [resp |-> NilResponse, err |-> "Unauthenticated", reached |-> FALSE]
    ELSE next

\* The Search of the service service.New returns: the logging middleware
\* around svc.
ServiceSearch(authenticated, key, result, loopvar) ==
    loggingMiddlewareSearch(svcSearch(key, result, loopvar))

\* grpc_auth.UnaryServerInterceptor(authFunc): the handler is called with
\* the new context unless authFunc returned an error.
UnaryServerInterceptor(auth, reply) ==
    IF auth.err # "nil"
    THEN [resp |-> NilResponse, err |-> auth.err, reached |-> FALSE]
    ELSE reply

\* One Search RPC, from the interceptor to the reply.
RpcSearch(token, key, first, lst, result, loopvar) ==
    /\ LET auth == injectAuthFunctions(opts.authHandler, token)
           reply == UnaryServerInterceptor(auth,
                        ServiceSearch(auth.authenticated, key, result, loopvar))
       IN  last' = [kind |-> "RpcSearch", token |-> token, key |-> key,
                    first |-> first, last |-> lst,
                    authenticated |-> auth.authenticated, result |-> result,
                    reached |-> reply.reached, resp |-> reply.resp,
                    err |-> reply.err]
    /\ UNCHANGED <<sub, opts, data, work, wpc, closed, wait, counter, cpc, creq,
                   crashed, enq, app, expired>>

\* handler.Search called directly, as its tests call it.
HandlerSearch(key, first, lst, result, loopvar) ==
    /\ LET reply == handlerSearch(key, result, loopvar)
       IN  last' = [kind |-> "HandlerSearch", key |-> key, first |-> first,
                    last |-> lst, result |-> result,
                    reached |-> reply.reached, resp |-> reply.resp,
                    err |-> reply.err]
    /\ UNCHANGED <<sub, opts, data, work, wpc, closed, wait, counter, cpc, creq,
                   crashed, enq, app, expired>>

RpcInit == (\E o \in SvrOptions : New(o)) /\ sub = subscriberNew

RpcNext ==
    \/ \E wr \in RpcWrites : ApplyWrite(wr[1], wr[2])
    \/ \E token \in Tokens, k \in SeqKeys, r \in RpcRanges, lv \in LoopVars :
          \E result \in SearcherResults(k, r[1], r[2]) :
              RpcSearch(token, k, r[1], r[2], result, lv)
    \/ \E k \in SeqKeys, r \in RpcRanges, lv \in LoopVars :
          \E result \in SearcherResults(k, r[1], r[2]) :
              HandlerSearch(k, r[1], r[2], result, lv)

RpcSpec == RpcInit /\ [][RpcNext]_vars

\* ------------------------------------------------ the logging middleware

\* Search through the logging middleware around svc, in the two versions of
\* loggingMiddleware.Search, the Searcher being any implementation of the
\* interface (as the mockSearcher of the tests).

\* The versions, by the line of part_003 they start at.
LoggingVersions == {28, 88}
\* What the Searcher returns: each kind of error, and zero to three
\* samples.
MockResults ==
    {[err |-> e, elts |-> <<>>] : e \in {"NotFound", "InvalidSearch", "other"}}
        \cup {[err |-> "none", elts |-> l] :
                 l \in {<<>>, <<Element(1, "v1")>>,
                        <<Element(1, "v1"), Element(2, "v2")>>,
                        <<Element(1, "v1"), Element(2, "v2"),
                          Element(3, "v3")>>}}

\* loggingMiddleware.Search of line 28: resp, err = mw.Search(ctx, req) is a
\* call of the method itself; every call adds a frame and makes the same
\* call, mw.next is never called, and the stack limit ends the process.
RECURSIVE loggingMiddlewareSearchSelf(_, _)
loggingMiddlewareSearchSelf(next, frames) ==
    IF frames >= MaxStack
    THEN [resp |-> NilResponse, err |-> "stack overflow", reached |-> FALSE]
    ELSE loggingMiddlewareSearchSelf(next, frames + 1)

\* One Search through the middleware service.New puts around svc.
MwSearch(version, key, first, lst, result, loopvar) ==
    /\ ~crashed
    /\ LET next == svcSearch(key, result, loopvar)
           reply == IF version = 28
                    THEN loggingMiddlewareSearchSelf(next, 1)
                    ELSE loggingMiddlewareSearch(next)
       IN  /\ last' = [kind |-> "MwSearch", version |-> version, key |-> key,
                       first |-> first, last |-> lst, result |-> result,
                       next |-> next,
                       calls |-> IF reply.reached THEN 1 ELSE 0,
                       resp |-> reply.resp, err |-> reply.err]
           /\ crashed' = (reply.err = "stack overflow")
    /\ UNCHANGED <<sub, opts, data, work, wpc, closed, wait, counter, cpc, creq,
                   enq, app, expired>>

MwInit == New(DefaultOptions) /\ sub = subscriberNew

MwNext ==
    \E version \in LoggingVersions, k \in Keys, r \in RpcRanges,
       result \in MockResults, lv \in LoopVars :
        MwSearch(version, k, r[1], r[2], result, lv)

MwSpec == MwInit /\ [][MwNext]_vars

\* ------------------------------------------------------- derived notions

Range(s) == {s[i] : i \in DOMAIN s}

\* The list stored under key k (empty when the key is in no map).
Series(k) ==
    LET w == calculateWorkerPartition(k)
    IN  IF k \in DOMAIN data[w] THEN data[w][k] ELSE <<>>

\* The multiset of the entries of a sequence.
SeqBag(s) == [e \in Range(s) |-> Cardinality({i \in DOMAIN s : s[i] = e})]

IsSorted(l) ==
    \A i \in 1 .. Len(l) - 1 : l[i].Timestamp <= l[i + 1].Timestamp

\* The entries of l with timestamp t, in l's order.
AtTime(l, t) == SelectSeq(l, LAMBDA e : e.Timestamp = t)

\* The entries of l with first <= Timestamp < lst, the bounds being the
\* unsigned numbers the caller passed.
InRange(l, first, lst) ==
    SelectSeq(l, LAMBDA e : first <= e.Timestamp /\ e.Timestamp < lst)

\* ------------------------------------------------------------------ claims

\* C1: in every reachable state the series of every key, on every shard, is
\* sorted non-decreasing by timestamp, whatever the order of the Writes, the
\* callers they came from, and the Searches and expiry passes in between.
C1_SeriesSorted ==
    \A w \in Shards : \A k \in DOMAIN data[w] : IsSorted(data[w][k])

\* C1 witness: two writes that ran in decreasing timestamp order are both in
\* the series.
C1_Witness ==
    \E k \in Keys :
        /\ Len(app[k]) = 2
        /\ app[k][1].Timestamp > app[k][2].Timestamp
        /\ Len(Series(k)) = 2

\* C2 (as claimed): a Search with first <= last on a present key returns
\* exactly the stored samples with first <= timestamp < last, in stored order.
C2_SearchExact ==
    (last.kind = "RunSearch" /\ last.result.err = "none") =>
        last.result.elts = InRange(Series(last.key), last.first, last.last)

\* C2, restricted to bounds below 2^63 (the int64 conversion keeps them): the
\* result is exactly the stored samples in [first, last).
C2_SearchExactBelowWrap ==
    (/\ last.kind = "RunSearch"
     /\ last.result.err = "none"
     /\ last.first <= NoUpperBound
     /\ last.last <= NoUpperBound) =>
        last.result.elts = InRange(Series(last.key), last.first, last.last)

\* C3: for every key, the writes run by the worker are a prefix of the writes
\* enqueued for that key, in the same order.
C3_AppliedInEnqueueOrder ==
    \A k \in Keys :
        /\ Len(app[k]) <= Len(enq[k])
        /\ app[k] = SubSeq(enq[k], 1, Len(app[k]))

\* C3 witness: two different writes to one key have both run.
C3_Witness ==
    \E k \in Keys : Len(app[k]) = 2 /\ app[k][1] # app[k][2]

\* C4 (as claimed): when a Search returns, every sample its caller wrote
\* earlier to that key whose timestamp lies in [first, last) and that no expiry
\* pass removed is in the result, and the result is not NotFound.
C4_ReadYourWrites ==
    last.kind = "RunSearch" =>
        \A e \in Range(enq[last.key]) :
            (/\ e.Data = PayloadOf(last.caller)
             /\ last.first <= e.Timestamp
             /\ e.Timestamp < last.last
             /\ e \notin Range(expired[last.key])) =>
                (/\ last.result.err = "none"
                 /\ e \in Range(last.result.elts))

\* C4, restricted to bounds below 2^63: the caller's earlier writes in range
\* are in the result.
C4_ReadYourWritesBelowWrap ==
    (last.kind = "RunSearch" /\ last.last <= NoUpperBound) => C4_ReadYourWrites

\* C5: right after an expiry pass with cutoff c on a shard, no series of that
\* shard holds a sample with timestamp < c.
C5_NothingStaleAfterTick ==
    last.kind = "Tick" =>
        \A k \in DOMAIN data[last.shard] :
            \A e \in Range(data[last.shard][k]) : e.Timestamp >= last.cutOff

\* C5 witness: a pass has just run on a series written out of order, removed
\* its stale sample and kept the other.
C5_Witness ==
    /\ last.kind = "Tick"
    /\ \E k \in DOMAIN data[last.shard] :
          /\ Len(app[k]) = 2
          /\ app[k][1].Timestamp > app[k][2].Timestamp
          /\ Len(expired[k]) = 1
          /\ Len(data[last.shard][k]) = 1

\* C6: right after an expiry pass, no key of the shard maps to an empty
\* series: every key the pass left without samples is gone from the map.
C6_EmptyKeysReaped ==
    last.kind = "Tick" =>
        /\ \A k \in DOMAIN data[last.shard] : Len(data[last.shard][k]) > 0
        /\ DOMAIN data[last.shard] \subseteq last.before

\* C6 witness: the pass has just removed a key and kept another.
C6_Witness ==
    /\ last.kind = "Tick"
    /\ \E k \in last.before : k \notin DOMAIN data[last.shard]
    /\ DOMAIN data[last.shard] # {}

\* C7: a Search with first > last returns InvalidSearch and no samples,
\* enqueues nothing and leaves every map and the caller where they were.
C7_InvalidSearch ==
    [][\A c \in Callers, k \in Keys, r \in SearchRanges :
          (r[1] > r[2] /\ Search(c, k, r[1], r[2])) =>
              /\ last'.result = [err |-> "InvalidSearch", elts |-> <<>>]
              /\ work' = work
              /\ data' = data
              /\ cpc' = cpc]_vars

\* C7 witness: InvalidSearch has just been returned for a key that is stored.
C7_Witness ==
    /\ last.kind = "Search"
    /\ last.result.err = "InvalidSearch"
    /\ Len(Series(last.key)) > 0

\* C8: a Search with first <= last returns NotFound exactly when its key is
\* not in the shard's map at the moment the operation runs; for a key that is
\* there it returns samples and no error.
C8_NotFoundIffAbsent ==
    last.kind = "RunSearch" =>
        IF last.key \in DOMAIN data[last.shard]
        THEN last.result.err = "none"
        ELSE last.result = [err |-> "NotFound", elts |-> <<>>]

\* C8 witness: NotFound has just been returned for a key whose samples have
\* all expired.
C8_Witness ==
    /\ last.kind = "RunSearch"
    /\ last.result.err = "NotFound"
    /\ Len(expired[last.key]) > 0

\* C9: while Close has not been called and no expiry pass has removed
\* anything, the series of every key holds exactly the multiset of the samples
\* of the writes run for it, and that is every written sample once the inbox
\* holds no more of them.
C9_NoWriteLostOrDuplicated ==
    (~closed /\ \A k \in Keys : expired[k] = <<>>) =>
        \A k \in Keys :
            /\ SeqBag(Series(k)) = SeqBag(app[k])
            /\ Len(app[k]) = Len(enq[k]) => SeqBag(Series(k)) = SeqBag(enq[k])

\* C9 witness: both callers' writes to the key they share have run, with a
\* search of the other caller in flight.
C9_Witness ==
    /\ ~closed
    /\ \A k \in Keys : expired[k] = <<>>
    /\ \E k \in Keys :
          /\ Len(enq[k]) = 2
          /\ Len(app[k]) = 2
          /\ app[k][1].Data # app[k][2].Data
    /\ \E c \in Callers : cpc[c] = "search_recv"

\* C10: among the samples of a key with one timestamp the stored order is the
\* order in which their writes ran (less the ones expiry removed from the
\* front), and a Search returns them in that order.
C10_TiesInArrivalOrder ==
    /\ \A k \in Keys : \A t \in Timestamps :
          LET arrived == AtTime(app[k], t)
              gone == Len(AtTime(expired[k], t))
          IN  AtTime(Series(k), t) = SubSeq(arrived, gone + 1, Len(arrived))
    /\ (last.kind = "RunSearch" /\ last.result.err = "none") =>
          \A t \in Timestamps :
              AtTime(last.result.elts, t) \in {<<>>, AtTime(Series(last.key), t)}

\* C10 witness: a Search has just returned two samples with one timestamp and
\* different payloads.
C10_Witness ==
    /\ last.kind = "RunSearch"
    /\ Len(last.result.elts) = 2
    /\ last.result.elts[1].Timestamp = last.result.elts[2].Timestamp
    /\ last.result.elts[1].Data # last.result.elts[2].Data

\* The shard a caller's pending operation is for.
ShardOf(c) == calculateWorkerPartition(creq[c].key)

\* C11: an inbox never holds more than ChannelBufferSize operations; a Write
\* that finds its inbox full does not return but waits at the send, and leaves
\* the send only when the inbox has room, by putting its own operation at the
\* end of the inbox.
C11_BoundedInboxBlocksWrite ==
    /\ [](\A w \in Shards : Len(work[w]) <= ChannelBufferSize)
    /\ [][/\ \A c \in Callers : \A k \in KeysOf(c), ts \in Timestamps :
              (Write(c, k, ts, PayloadOf(c))
                 /\ Len(work[calculateWorkerPartition(k)]) = ChannelBufferSize) =>
                  /\ cpc'[c] = "write_send"
                  /\ creq'[c] = [op |-> "write", key |-> k,
                                 elt |-> Element(ts, PayloadOf(c))]
                  /\ work' = work
          /\ \A c \in Callers :
              cpc[c] = "write_send" =>
                  \/ cpc'[c] = "write_send" /\ creq'[c] = creq[c]
                  \/ /\ Len(work[ShardOf(c)]) < ChannelBufferSize
                     /\ work'[ShardOf(c)] = Append(work[ShardOf(c)], creq[c])
                     /\ enq'[creq[c].key] = Append(enq[creq[c].key], creq[c].elt)
                     /\ cpc'[c] = "idle"]_vars

\* C11 witness: a Write that waited at a full inbox has just put its
\* operation into it, after the worker received one, and the inbox is full
\* again.
C11_Witness ==
    /\ last.kind = "WriteSend"
    /\ \E w \in Shards :
          /\ Len(work[w]) = ChannelBufferSize
          /\ work[w][ChannelBufferSize].op = "write"

\* Close has been called and has returned.
CloseHasReturned == closed /\ \A c \in Callers : cpc[c] # "close_wait"

\* C12: Close returns only when every worker has left its loop, and from then
\* on no operation and no expiry pass runs: no map changes, whatever is
\* called later.
C12_CloseJoinsWorkers ==
    /\ [](CloseHasReturned => \A w \in Shards : wpc[w] = "done")
    /\ [][CloseHasReturned =>
            /\ data' = data
            /\ app' = app
            /\ expired' = expired
            /\ \A w \in Shards : Len(work'[w]) >= Len(work[w])]_vars

\* C12 witness: a Write called after Close returned has put its operation
\* into an inbox.
C12_Witness ==
    /\ CloseHasReturned
    /\ last.kind = "Write"
    /\ \E w \in Shards : Len(work[w]) > 0 /\ work[w][Len(work[w])].op = "write"

\* The steps a worker takes from its select other than leaving the loop.
WorkerSteps == {"RunWrite", "RunSearch", "Tick"}

\* The steps in which a worker receives an operation from its inbox.
TaskSteps == {"RunWrite", "RunSearch"}

\* C14 as stated: once close(s.close) has happened a worker finishes at most
\* the operation it is in and then leaves; it never receives two operations
\* in a row after the signal.
C14_AtMostCurrentTaskAfterShutdown ==
    [][(closed /\ last.kind \in TaskSteps /\ last'.kind \in TaskSteps) =>
           last'.shard # last.shard]_vars

\* C14 amended: after the signal a worker may go on receiving operations and
\* running passes for as long as its select picks those cases; only workers
\* that saw the signal leave, and a worker that has left receives nothing,
\* runs no pass and stays out, so what its inbox holds then is never run.
C14_NothingRunsAfterExit ==
    /\ [](\A w \in Shards : wpc[w] = "done" => closed)
    /\ [][/\ \A w \in Shards :
              wpc[w] = "done" =>
                  /\ wpc'[w] = "done"
                  /\ data'[w] = data[w]
                  /\ Len(work'[w]) >= Len(work[w])
                  /\ Len(work[w]) > 0 => Head(work'[w]) = Head(work[w])
          /\ last'.kind \in WorkerSteps => wpc[last'.shard] = "select"]_vars

\* C14 witness: a worker has just left its loop with an operation still in
\* its inbox, having run a write after the signal.
C14_Witness ==
    /\ last.kind = "WorkerExit"
    /\ Len(work[last.shard]) > 0
    /\ \E k \in Keys : Len(app[k]) > 0 /\ calculateWorkerPartition(k) = last.shard

\* The number of write operations ever put into an inbox.
RECURSIVE EnqueuedIn(_)
EnqueuedIn(ks) ==
    IF ks = {} THEN 0
    ELSE LET k == CHOOSE x \in ks : TRUE
         IN  Len(enq[k]) + EnqueuedIn(ks \ {k})

Enqueued == EnqueuedIn(Keys)

\* The Write calls waiting at the send on a full inbox.
BlockedWrites == {c \in Callers : cpc[c] = "write_send"}

\* C18: every Write call adds exactly one to the message counter, no other
\* step changes it, and the count is made before the send: the counter is the
\* number of write operations ever enqueued plus the Writes waiting at a full
\* inbox, so it is never below the number enqueued.
C18_CountedBeforeEnqueue ==
    /\ [](/\ counter = Enqueued + Cardinality(BlockedWrites)
          /\ counter >= Enqueued)
    /\ [][/\ \A c \in Callers : \A k \in KeysOf(c), ts \in Timestamps :
              Write(c, k, ts, PayloadOf(c)) => counter' = counter + 1
          /\ counter' # counter =>
              \E c \in Callers : \E k \in KeysOf(c), ts \in Timestamps :
                  Write(c, k, ts, PayloadOf(c))]_vars

\* C18 witness: a Write waits at a full inbox and is in the count already.
C18_Witness ==
    /\ BlockedWrites # {}
    /\ counter = Enqueued + 1
    /\ last.kind = "Write"

\* The shards that hold key k: in the map, or in an operation of the inbox.
Holders(k) ==
    {w \in Shards :
        \/ k \in DOMAIN data[w]
        \/ \E i \in DOMAIN work[w] : work[w][i].key = k}

\* C20: a key is in the map of at most one shard, and that shard, the one
\* every Write and Search operation for the key is sent to, is
\* calculateWorkerPartition(key), whatever has been written, expired or
\* closed before.
C20_OneShardPerKey ==
    \A k \in Keys :
        /\ Cardinality(Holders(k)) <= 1
        /\ Holders(k) \subseteq {calculateWorkerPartition(k)}
        /\ \A c \in Callers :
              (creq[c] # NoReq /\ creq[c].key = k /\ cpc[c] = "search_recv") =>
                  \E i \in DOMAIN work[calculateWorkerPartition(k)] :
                      work[calculateWorkerPartition(k)][i] = creq[c]

\* C20 witness: a key whose samples all expired has been written again and
\* is back in the map of its shard, with a Search for it in the inbox.
C20_Witness ==
    \E k \in Keys :
        /\ Len(expired[k]) > 0
        /\ k \in DOMAIN data[calculateWorkerPartition(k)]
        /\ \E i \in DOMAIN work[calculateWorkerPartition(k)] :
              /\ work[calculateWorkerPartition(k)][i].op = "search"
              /\ work[calculateWorkerPartition(k)][i].key = k

\* C17 as stated: when the onExpire handler panics on an Element a pass hands
\* it, the process goes on and the worker is still in its loop.
C17_CallbackPanicContained ==
    last.kind = "TickPanic" => (~crashed /\ wpc[last.shard] = "select")

\* C19 as stated: every Write call returns normally, counted, whether or not
\* a MessageCounter was given to New.
C19_WriteNeverPanics ==
    [][\A c \in Callers : \A k \in KeysOf(c), ts \in Timestamps :
          Write(c, k, ts, PayloadOf(c)) =>
              (~crashed' /\ last'.kind = "Write")]_vars

\* C13 as stated: no Search caller stays blocked for ever.  A caller at the
\* send or at the receive from responseChan of a shard whose worker has
\* returned can never be answered: only that worker runs the operation that
\* sends the reply.
C13_NoSearchStranded ==
    \A c \in Callers :
        cpc[c] \in {"search_send", "search_recv"} => wpc[ShardOf(c)] # "done"

\* C15: once close(s.close) has happened every worker leaves its loop and
\* Close returns, also while operations keep arriving in the inbox and ticks
\* keep coming (unless a second Close has panicked in between).
C15_ShutdownCompletes ==
    /\ closed ~> (crashed \/ \A w \in Shards : wpc[w] = "done")
    /\ \A c \in Callers :
          (cpc[c] = "close_wait") ~> (crashed \/ cpc[c] = "idle")

\* C15 witness: Close has returned to its caller while an operation the
\* workers never ran is still in an inbox.
C15_Witness ==
    /\ last.kind = "CloseReturn"
    /\ \A w \in Shards : wpc[w] = "done"
    /\ \E w \in Shards : Len(work[w]) > 0

\* C16: while Close is not called every Write call and every Search call
\* returns: a caller that is in a call gets back to idle, or Close has been
\* called by then.
C16_CallsReturn ==
    \A c \in Callers :
        (cpc[c] \in {"write_send", "search_send", "search_recv"}) ~>
            (cpc[c] = "idle" \/ closed)

\* C16 witness: with Close not called, a Search that waited at a full inbox
\* behind the other caller's operations has just been answered.
C16_Witness ==
    /\ ~closed
    /\ last.kind = "RunSearch"
    /\ cpc[last.caller] = "idle"
    /\ \E c \in Callers : cpc[c] # "idle"

\* C21: a Write to one key leaves the series of every other key as it was:
\* the call and its send change no series at all, and when the worker runs
\* the operation only the series of the written key changes, on the same
\* shard as on the others.
C21_WriteLeavesOtherKeys ==
    [][/\ (\E w \in Shards : Len(work'[w]) > Len(work[w])) => data' = data
       /\ \A w \in Shards :
              RunWrite(w) =>
                  \A k \in Keys \ {Head(work[w]).key} :
                      /\ Series(k)' = Series(k)
                      /\ \A v \in Shards :
                            (k \in DOMAIN data'[v]) = (k \in DOMAIN data[v])]_vars

\* C21 witness: a write has just run on a shard that holds the samples of
\* another key.
C21_Witness ==
    /\ last.kind = "RunWrite"
    /\ \E k \in Keys \ {last.key} :
          /\ k \in DOMAIN data[last.shard]
          /\ Len(data[last.shard][k]) > 0

PendingSearches(c) ==
    {p \in Shards \X (1 .. ChannelBufferSize) :
        /\ p[2] <= Len(work[p[1]])
        /\ work[p[1]][p[2]].op = "search"
        /\ work[p[1]][p[2]].caller = c}

\* C23: a search operation the worker runs sends one result and no more: a
\* caller waits on its responseChan exactly while its one operation is still
\* in the inbox, it is back from Search as soon as the operation has run,
\* and what it gets is samples with no error or NotFound with no samples.
C23_ExactlyOneReply ==
    /\ \A c \in Callers :
          Cardinality(PendingSearches(c)) = IF cpc[c] = "search_recv" THEN 1 ELSE 0
    /\ last.kind = "RunSearch" =>
          /\ cpc[last.caller] = "idle"
          /\ \/ last.result.err = "none"
             \/ last.result = [err |-> "NotFound", elts |-> <<>>]

\* C23 witness: one caller has just got its result while the other caller's
\* search is still in an inbox.
C23_Witness ==
    /\ last.kind = "RunSearch"
    /\ \E c \in Callers \ {last.caller} :
          cpc[c] = "search_recv" /\ PendingSearches(c) # {}

\* The series of key k in a map (empty when the key is not in it).
SeriesIn(m, k) == IF k \in DOMAIN m THEN m[k] ELSE <<>>

\* The entries of l with Timestamp < c, and those with Timestamp >= c.
Stale(l, c) == SelectSeq(l, LAMBDA e : e.Timestamp < c)
Fresh(l, c) == SelectSeq(l, LAMBDA e : e.Timestamp >= c)

\* C24: the slice a Search returned is the caller's own: it holds exactly
\* the samples returned, operations and expiry passes run afterwards do not
\* change what the caller holds, and the caller dropping or reordering
\* entries of its slice does not change the stored series.
HeldNow == IF Held.slice.live THEN Series(Held.key) ELSE Held.slice.elts

C25_CallbackPerRemovedSample ==
    last.kind = "ApplyExpire" =>
        \A k \in DOMAIN last.before :
            LET gone == Stale(last.before[k], last.cutOff)
                stay == SeriesIn(data[SeqShard], k)
                calls == last.calls[k]
            IN  /\ gone \o stay = last.before[k]
                /\ opts.OnExpire = "nil" => calls = <<>>
                /\ opts.OnExpire # "nil" =>
                      /\ calls = gone
                      /\ \A i, j \in DOMAIN calls :
                            i < j => /\ calls[i] # calls[j]
                                     /\ calls[i].Timestamp <= calls[j].Timestamp
                      /\ Range(calls) \cap Range(stay) = {}

\* C25 witness: a pass has just handed two samples of one key to the
\* handler and left a third in the series.
C25_Witness ==
    /\ last.kind = "ApplyExpire"
    /\ opts.OnExpire = "returns"
    /\ \E k \in DOMAIN last.calls :
          /\ Len(last.calls[k]) = 2
          /\ Len(SeriesIn(data[SeqShard], k)) = 1

\* C26 as stated: Search(key, NoLowerBound, NoUpperBound) on a key that is
\* in the map returns every sample of its series, whatever int64 the
\* timestamps are.
C26_NoBoundsReturnsAll ==
    (/\ last.kind = "ApplySearch"
     /\ last.first = NoLowerBound
     /\ last.last = NoUpperBound
     /\ last.key \in DOMAIN last.before) =>
        last.result = [err |-> "none", elts |-> last.before[last.key]]

\* C29: a pass with cutoff c leaves of every series exactly the samples with
\* Timestamp >= c, in their order, which is a suffix of what it was: a
\* sample with Timestamp = c stays, and a key left with nothing is gone.
C29_ExpiryRemovesExactlyStale ==
    last.kind = "ApplyExpire" =>
        /\ DOMAIN data[SeqShard] \subseteq DOMAIN last.before
        /\ \A k \in DOMAIN last.before :
              LET was == last.before[k]
                  kept == Fresh(was, last.cutOff)
              IN  /\ kept = SubSeq(was, Len(was) - Len(kept) + 1, Len(was))
                  /\ SeriesIn(data[SeqShard], k) = kept
                  /\ (k \in DOMAIN data[SeqShard]) = (kept # <<>>)

\* C29 witness: a pass has just removed a sample older than the cutoff and
\* left one whose timestamp is the cutoff.
C29_Witness ==
    /\ last.kind = "ApplyExpire"
    /\ \E k \in DOMAIN data[SeqShard] :
          /\ data[SeqShard][k][1].Timestamp = last.cutOff
          /\ Len(last.before[k]) > Len(data[SeqShard][k])

\* Sorted by Timestamp, the samples of one Timestamp in the order of arrival.
StablySorted(l) ==
    \A i, j \in DOMAIN l :
        i < j => \/ l[i].Timestamp < l[j].Timestamp
                 \/ l[i].Timestamp = l[j].Timestamp /\ l[i].Data < l[j].Data

\* C30: insert puts the new sample right after the last sample whose
\* Timestamp is <= its own (at the front when there is none) and moves no
\* other, so every series is its arrivals, less the expired ones, stably
\* sorted by Timestamp.
C30_InsertIsStableSort ==
    /\ (last.kind = "ApplyWrite" /\ last.key \in DOMAIN last.before) =>
          LET was == last.before[last.key]
              le == {i \in DOMAIN was : was[i].Timestamp <= last.elt.Timestamp}
              p == IF le = {} THEN 0 ELSE CHOOSE i \in le : \A j \in le : j <= i
          IN  data[SeqShard][last.key] =
                  SubSeq(was, 1, p) \o <<last.elt>> \o SubSeq(was, p + 1, Len(was))
    /\ \A k \in SeqKeys :
          /\ StablySorted(Series(k))
          /\ Len(Series(k)) = Len(app[k]) - Len(expired[k])
          /\ Range(Series(k)) = Range(app[k]) \ Range(expired[k])

\* C30 witness: a sample has just been inserted between a sample of its own
\* timestamp and a later one.
C30_Witness ==
    /\ last.kind = "ApplyWrite"
    /\ Len(Series(last.key)) = 3
    /\ Series(last.key)[2] = last.elt
    /\ Series(last.key)[1].Timestamp = last.elt.Timestamp
    /\ Series(last.key)[3].Timestamp > last.elt.Timestamp

\* C27: the Search RPC maps what the Searcher returned to the reply: NotFound
\* gives status NOT_FOUND and InvalidSearch gives status INVALID_ARGUMENTS,
\* both with no error and with Results.Key the requested key; success gives
\* status OK with no error; any other error is returned as the call's error.
C27_StatusMapping ==
    (last.kind \in {"RpcSearch", "HandlerSearch"} /\ last.reached) =>
        /\ last.result.err = "NotFound" =>
               /\ last.err = "nil"
               /\ last.resp.Status = "NOT_FOUND"
               /\ last.resp.Results.Key = last.key
        /\ last.result.err = "InvalidSearch" =>
               /\ last.err = "nil"
               /\ last.resp.Status = "INVALID_ARGUMENTS"
               /\ last.resp.Results.Key = last.key
        /\ last.result.err = "none" =>
               /\ last.err = "nil"
               /\ last.resp.Status = "OK"
        /\ last.result.err \notin {"none", "NotFound", "InvalidSearch"} =>
               last.err = last.result.err

\* An RPC for a key that storage does not hold, answered NOT_FOUND, after
\* one with Oldest > Newest would be answered INVALID_ARGUMENTS.
C27_Witness ==
    /\ last.kind = "RpcSearch"
    /\ last.reached
    /\ last.key = "C"
    /\ "B" \in DOMAIN data[SeqShard]
    /\ last.result.err = "NotFound"
    /\ last.resp = SearchResponse("NOT_FOUND", "C", <<>>)
    /\ svcSearch("B", StorageSearch("B", 2, 1), "per-loop").resp.Status
           = "INVALID_ARGUMENTS"

\* C28: with an auth handler, a Search RPC whose bearer token is missing or
\* rejected is answered Unauthenticated and does not reach storage Search;
\* with an accepted token, or with no auth handler, it reaches storage
\* Search.
C28_AuthGuardsSearch ==
    last.kind = "RpcSearch" =>
        IF opts.authHandler # "nil" /\ last.token \in {"none", "bad"}
        THEN last.err = "Unauthenticated" /\ ~last.reached
        ELSE last.reached

\* C31: for the bounds first <= last of a Search the worker runs, the int64
\* bounds handed to search have the same numeric values and the same order:
\* no bound of 2^63 or more becomes negative.
C31_BoundsKeepValue ==
    last.kind = "RunSearch" =>
        /\ ToInt64(last.first) = last.first
        /\ ToInt64(last.last) = last.last
        /\ ToInt64(last.first) <= ToInt64(last.last)

\* C32: between worker events every key of a shard's map has a non-empty
\* series: a key enters the map with its first sample, and a pass removes a
\* key exactly when it removes the last of its samples.
C32_NoEmptySeries ==
    /\ \A w \in Shards : \A k \in DOMAIN data[w] : Len(data[w][k]) > 0
    /\ (last.kind = "ApplyWrite" /\ last.key \notin DOMAIN last.before) =>
           data[SeqShard][last.key] = <<last.elt>>
    /\ last.kind = "ApplyExpire" =>
           \A k \in DOMAIN last.before :
               (k \notin DOMAIN data[SeqShard])
                   = (Stale(last.before[k], last.cutOff) = last.before[k])

\* C32 witness: a pass has just emptied two keys, after a Search, and both
\* are gone from the map.
C32_Witness ==
    /\ last.kind = "ApplyExpire"
    /\ DOMAIN last.before = {"B", "C"}
    /\ DOMAIN data[SeqShard] = {}
    /\ Len(Held.slice.elts) > 0

\* C33 (as claimed): a Search on a present key with no stored timestamp in
\* [first, last) returns success with an empty result.
C33_EmptyRangeIsEmptySuccess ==
    (/\ last.kind = "ApplySearch"
     /\ last.key \in DOMAIN last.before
     /\ InRange(last.before[last.key], last.first, last.last) = <<>>) =>
        last.result = [err |-> "none", elts |-> <<>>]

\* C33, restricted to bounds below 2^63 (the int64 conversion keeps them).
C33_EmptyRangeBelowWrap ==
    (/\ last.kind = "ApplySearch"
     /\ last.key \in DOMAIN last.before
     /\ last.last <= NoUpperBound
     /\ InRange(last.before[last.key], last.first, last.last) = <<>>) =>
        last.result = [err |-> "none", elts |-> <<>>]

\* C34: running a search operation leaves the map of the shard as it was,
\* whether the key is found or not and whatever the bounds are.
C34_SearchLeavesIndex ==
    last.kind = "ApplySearch" => data[SeqShard] = last.before

\* C34 witness: a search for an absent key and bounds of 2^63 and above has
\* just run on a map that holds another key.
C34_Witness ==
    /\ last.kind = "ApplySearch"
    /\ last.key = "C"
    /\ last.first > NoUpperBound
    /\ last.result.err = "NotFound"
    /\ DOMAIN data[SeqShard] = {"B"}
    /\ Len(data[SeqShard]["B"]) > 1

\* C35: calculateWorkerPartition returns an index in 0 .. N-1 for every
\* 32-bit hash value, those of 2^31 and above included, and every worker
\* count N >= 1: the index into s.work is never negative or out of range.
C35_PartitionInRange ==
    last.kind = "Partition" =>
        /\ last.partition \in 0 .. last.WorkerCount - 1
        /\ ~last.panics

\* C35 on a build whose int has 64 bits.
C35_PartitionInRange64 ==
    (last.kind = "Partition" /\ last.intSize = 64) =>
        last.partition \in 0 .. last.WorkerCount - 1

\* C36: when the Searcher succeeds with n samples, the reply has status OK,
\* no error, and Results.Elements is those n samples in their order, each
\* entry with the timestamp and data of its own sample.
C36_ElementsAreTheSamples ==
    (/\ last.kind \in {"RpcSearch", "HandlerSearch"}
     /\ last.reached
     /\ last.result.err = "none") =>
        /\ last.err = "nil"
        /\ last.resp.Status = "OK"
        /\ Len(last.resp.Results.Elements) = Len(last.result.elts)
        /\ \A i \in DOMAIN last.result.elts :
               last.resp.Results.Elements[i] = last.result.elts[i]

\* C36, as far as the number of entries goes.
C36_ElementsCount ==
    (/\ last.kind \in {"RpcSearch", "HandlerSearch"}
     /\ last.reached
     /\ last.result.err = "none") =>
        /\ last.err = "nil"
        /\ last.resp.Status = "OK"
        /\ Len(last.resp.Results.Elements) = Len(last.result.elts)

\* C37: once Close has closed closer, the goroutine that receives from it
\* leaves its event loop (and goes on to close the consumer and to signal
\* the wait group, so that Close returns).
C37_CloserEndsLoop ==
    last.kind = "SubCloser" => sub.pc # "select"

\* The write calls the messages among the events make, in order.
RECURSIVE WritesOf(_)
WritesOf(evts) ==
    IF evts = <<>> THEN <<>>
    ELSE (IF Head(evts).kind = "Message" THEN <<WriteCall(Head(evts))>>
          ELSE <<>>) \o WritesOf(Tail(evts))

\* C38: the Writes the subscriber has made are, in order, one per message
\* event it has received, each with that message's key, timestamp and value;
\* events of the other kinds have made none.  Each of these Writes is in
\* storage's inbox history or is the one waiting for room.
C38_OneWritePerMessage ==
    /\ sub.written = WritesOf(sub.received)
    /\ counter = Len(sub.written)
    /\ \A k \in Keys :
           LET calls == SelectSeq(sub.written, LAMBDA c : c.key = k)
               sent == IF sub.pc = "write_send" /\ sub.req.key = k
                       THEN Len(calls) - 1 ELSE Len(calls)
           IN  /\ Len(enq[k]) = sent
               /\ \A i \in 1 .. sent :
                      enq[k][i] = Element(calls[i].ts, calls[i].data)

\* C38 witness: after Close, a message, an error and another message have
\* been received, and the two Writes are in storage.
C38_Witness ==
    /\ sub.closer
    /\ Len(sub.received) = 3
    /\ sub.received[1].kind = "Message"
    /\ sub.received[2].kind = "Error"
    /\ sub.received[3].kind = "Message"
    /\ sub.received[1] # sub.received[3]
    /\ Len(sub.written) = 2
    /\ Len(app["B"]) = 1
    /\ Len(app["C"]) = 1

\* C39: a Search through the logging middleware calls the wrapped service's
\* Search exactly once, returns its response and error unchanged, and
\* terminates.
C39_LoggingCallsNextOnce ==
    last.kind = "MwSearch" =>
        /\ last.calls = 1
        /\ last.resp = last.next.resp
        /\ last.err = last.next.err
        /\ ~crashed

\* C39 for the version of line 88, which calls mw.next.Search.
C39_LoggingCallsNextOnce88 ==
    (last.kind = "MwSearch" /\ last.version = 88) =>
        /\ last.calls = 1
        /\ last.resp = last.next.resp
        /\ last.err = last.next.err
        /\ ~crashed

====
